---- MODULE Spec2Model ----
(***************************************************************************)
(* FreshMart backend (src/server.js): the registration, cart and order    *)
(* handlers over the three JSON files, as a state machine.                 *)
(*                                                                         *)
(* Every cart and order handler is synchronous (readFileSync /             *)
(* writeFileSync, no await), so Node runs each one to completion before    *)
(* it serves the next request: one action is one whole handler.  Two       *)
(* concurrent requests are two handler runs in either order.  The register *)
(* handler awaits bcrypt.hash once: it is two actions, one up to the await *)
(* and one from it, and other handlers run in between.                     *)
(*                                                                         *)
(* Units.  Quantities are counted in halves (2 is the quantity 1, 3 is     *)
(* 1.5) so that parseInt has something to truncate.  Prices are in mills   *)
(* (1000 is 1.00) so that toFixed(2) has something to round.  A product    *)
(* price * quantity is therefore in half-mills (2000 is 1.00).             *)
(*                                                                         *)
(* An optional field is a sequence: << >> when absent, << v >> when set.   *)
(* A string that is absent or empty is "" (both are falsy in the code).    *)
(***************************************************************************)
EXTENDS Integers, Sequences, FiniteSets, TLC

VARIABLES
    carts,      \* contents of carts.json: a sequence of cart records
    orders,     \* contents of orders.json: a sequence of order records
    now,        \* Date.now()
    last,       \* the latest request served and the response it got
    users,      \* contents of users.json: a sequence of user records
    registering, \* the register handlers suspended at await bcrypt.hash
    routing     \* the request that express is taking down its handler stack

vars == <<carts, orders, now, last, users, registering, routing>>

(***************************************************************************)
(* Bounds of the model                                                     *)
(***************************************************************************)
\* largest quantity (in halves) a cart line may reach
MaxQuantity == 6
\* largest number of orders in orders.json
MaxOrders == 2
\* largest value of the clock, in milliseconds
MaxTime == 1
\* largest number of users in users.json
MaxUsers == 2

(***************************************************************************)
(* Inputs                                                                  *)
(***************************************************************************)
\* ids carried by the tokens that authenticate() accepts
Users == {1, 2}

Products == {"A", "B"}

\* (name, price) pairs a client sends with a product
Offers ==
    { [name |-> "apple", price |-> 2500], [name |-> "pear", price |-> 1000] }

\* quantity of a well-formed POST /api/cart: absent (1 by default), 1.5, 2
AddQuantities == { << >>, <<3>>, <<4>> }

\* bodies of POST /api/cart that pass its checks
GoodAddBodies ==
    { [productId |-> p, name |-> o.name, price |-> o.price, quantity |-> q] :
        p \in Products, o \in Offers, q \in AddQuantities }

\* bodies of POST /api/cart with a falsy field or a quantity below 1
BadAddBodies ==
    { [productId |-> "", name |-> "apple", price |-> 2500, quantity |-> <<2>>],
      [productId |-> "A", name |-> "", price |-> 2500, quantity |-> <<2>>],
      [productId |-> "A", name |-> "apple", price |-> 0, quantity |-> <<2>>],
      [productId |-> "A", name |-> "apple", price |-> 2500, quantity |-> <<0>>] }

\* quantity of PUT /api/cart/:productId: absent, -1, 0, 1, 1.5, 2
UpdateQuantities == { << >>, <<-2>>, <<0>>, <<2>>, <<3>>, <<4>> }

(***************************************************************************)
(* Data helpers                                                            *)
(***************************************************************************)
\* readData: the parsed file, or [] when reading or parsing throws
ReadData(file, fails) == IF fails THEN << >> ELSE file

\* carts.find(c => c.userId === id) as an index, 0 when there is none
RECURSIVE FindCartFrom(_, _, _)
FindCartFrom(cs, u, i) ==
    IF i > Len(cs) THEN 0
    ELSE IF cs[i].userId = u THEN i
    ELSE FindCartFrom(cs, u, i + 1)

FindCart(cs, u) == FindCartFrom(cs, u, 1)

\* items.findIndex(item => item.productId == productId), 0 for -1
RECURSIVE FindItemFrom(_, _, _)
FindItemFrom(items, p, i) ==
    IF i > Len(items) THEN 0
    ELSE IF items[i].productId = p THEN i
    ELSE FindItemFrom(items, p, i + 1)

FindItem(items, p) == FindItemFrom(items, p, 1)

\* parseInt of a number: truncation to a whole quantity
ParseInt(q) == (q \div 2) * 2

\* parseFloat of a number: the number
ParseFloat(x) == x

\* items.reduce((sum, item) => sum + item.quantity, 0)
RECURSIVE TotalItems(_)
TotalItems(items) ==
    IF items = << >> THEN 0
    ELSE Head(items).quantity + TotalItems(Tail(items))

\* TotalPrice with the quantities left out of the sum
RECURSIVE TotalPriceFlat(_)
TotalPriceFlat(items) ==
    IF items = << >> THEN 0
    ELSE Head(items).price + TotalPriceFlat(Tail(items))

\* items.reduce((sum, item) => sum + (item.price * item.quantity), 0)
RECURSIVE TotalPrice(_)
TotalPrice(items) ==
    IF items = << >> THEN 0
    ELSE Head(items).price * Head(items).quantity + TotalPrice(Tail(items))

\* items.filter(item => item.productId != productId)
RECURSIVE FilterOut(_, _)
FilterOut(items, p) ==
    IF items = << >> THEN << >>
    ELSE IF Head(items).productId = p THEN FilterOut(Tail(items), p)
    ELSE <<Head(items)>> \o FilterOut(Tail(items), p)

\* items.splice(i, 1)
Splice(items, i) ==
    [k \in 1..(Len(items) - 1) |-> IF k < i THEN items[k] ELSE items[k + 1]]

NewCart(u) == [userId |-> u, items |-> << >>, clearedAt |-> << >>]

\* the items of the first cart of u in cs, << >> when u has none
ItemsOf(cs, u) ==
    IF FindCart(cs, u) = 0 THEN << >> ELSE cs[FindCart(cs, u)].items

(***************************************************************************)
(* Responses                                                               *)
(***************************************************************************)
\* no request has reached express yet
NoRouting ==
    [method |-> "", path |-> << >>, overLimit |-> FALSE, layer |-> 0,
     handler |-> "none", res |-> << >>]

NoRequest ==
    [op |-> "none", user |-> 0, status |-> 0, req |-> << >>, res |-> << >>,
     fail |-> {}]

Response(op, u, status, req, res, fail) ==
    [op |-> op, user |-> u, status |-> status, req |-> req, res |-> res,
     fail |-> fail]

\* the body every cart route answers with
CartBody(items) ==
    [items |-> items, totalItems |-> TotalItems(items),
     totalPrice |-> TotalPrice(items)]

\* the accesses among `tried` that failed
Failed(tried) == { a[1] : a \in { b \in tried : b[2] } }

(***************************************************************************)
(* Cart routes                                                             *)
(***************************************************************************)
\* quantity = 1 when the body has none
DefaultQuantity == 2

Quantity(qty) == IF qty = << >> THEN DefaultQuantity ELSE qty[1]

\* POST /api/cart: the checks that answer 400
AddItemRejects(p, name, price, q) ==
    \/ p = "" \/ name = "" \/ price = 0
    \/ q < 2

\* AddLine with a new product replacing the cart's lines
AddLineLosing(items, p, name, price, q) ==
    LET k == FindItem(items, p)
    IN  IF k # 0
        THEN [items EXCEPT ![k].quantity = @ + q]
        ELSE << [productId |-> p, name |-> name, price |-> ParseFloat(price),
                 quantity |-> ParseInt(q)] >>

\* AddLine with the request's name and price written over the line's
AddLineOverwriting(items, p, name, price, q) ==
    LET k == FindItem(items, p)
    IN  IF k # 0
        THEN [items EXCEPT ![k].quantity = @ + q, ![k].name = name,
                           ![k].price = ParseFloat(price)]
        ELSE Append(items,
                 [productId |-> p, name |-> name, price |-> ParseFloat(price),
                  quantity |-> ParseInt(q)])

\* AddLine with a new line appended whether or not the product has one
AddLineAppending(items, p, name, price, q) ==
    Append(items,
        [productId |-> p, name |-> name, price |-> ParseFloat(price),
         quantity |-> ParseInt(q)])

\* POST /api/cart: the cart's items after the add
AddLine(items, p, name, price, q) ==
    LET k == FindItem(items, p)
    IN  IF k # 0
        THEN [items EXCEPT ![k].quantity = @ + q]
        ELSE Append(items,
                 [productId |-> p, name |-> name, price |-> ParseFloat(price),
                  quantity |-> ParseInt(q)])

\* PUT /api/cart/:productId: the check that answers 400
UpdateRejects(qty) ==
    \/ qty = << >>
    \/ qty[1] = 0
    \/ qty[1] < 0

\* PUT /api/cart/:productId: the cart's items after the update of line k
SetQuantity(items, k, q) ==
    IF q = 0
    THEN Splice(items, k)
    ELSE [items EXCEPT ![k].quantity = ParseInt(q)]

\* Emptied with the items left in place
EmptiedStampOnly(cart, t) == [cart EXCEPT !.clearedAt = <<t>>]

\* userCart.items = []; userCart.clearedAt = new Date().toISOString()
Emptied(cart, t) == [cart EXCEPT !.items = << >>, !.clearedAt = <<t>>]

\* writeData(CARTS_FILE, cs) and the response that follows
WriteCarts(cs, op, u, req, message, items, rf, wf) ==
    IF wf
    THEN /\ carts' = carts
         /\ last' = Response(op, u, 500, req,
                        [message |-> "Failed"],
                        Failed({<<"readCarts", rf>>, <<"writeCarts", wf>>}))
         /\ UNCHANGED <<users, registering, routing>>
    ELSE /\ carts' = cs
         /\ last' = Response(op, u, 200, req,
                        [message |-> message] @@ CartBody(items),
                        Failed({<<"readCarts", rf>>}))
         /\ UNCHANGED <<users, registering, routing>>

\* a response sent before any write
Answer(op, u, status, req, res, fail) ==
    /\ last' = Response(op, u, status, req, res, fail)
    /\ UNCHANGED <<carts, orders, now, users, registering, routing>>

GetCart(u, rf) ==
    LET cs == ReadData(carts, rf)
        i  == FindCart(cs, u)
        userCart == IF i # 0 THEN cs[i] ELSE NewCart(u)
    IN  Answer("getCart", u, 200, << >>, CartBody(userCart.items),
               Failed({<<"readCarts", rf>>}))

AddItem(u, body, rf, wf) ==
    LET q == Quantity(body.quantity)
    IN  IF AddItemRejects(body.productId, body.name, body.price, q)
        THEN Answer("addItem", u, 400, body, [message |-> "Invalid"], {})
        ELSE LET cs0 == ReadData(carts, rf)
                 cs1 == IF FindCart(cs0, u) = 0
                        THEN Append(cs0, NewCart(u)) ELSE cs0
                 i   == FindCart(cs1, u)
                 items == AddLine(cs1[i].items, body.productId, body.name,
                              body.price, q)
             IN  /\ \A k \in 1..Len(items) : items[k].quantity <= MaxQuantity
                 /\ WriteCarts([cs1 EXCEPT ![i].items = items], "addItem", u,
                        body, "Item added to cart successfully", items, rf, wf)
                 /\ UNCHANGED <<orders, now>>

UpdateItemQuantity(u, p, qty, rf, wf) ==
    LET req == [productId |-> p, quantity |-> qty]
    IN  IF UpdateRejects(qty)
        THEN Answer("updateItemQuantity", u, 400, req,
                    [message |-> "Valid quantity is required"], {})
        ELSE LET cs == ReadData(carts, rf)
                 i  == FindCart(cs, u)
                 k  == FindItem(cs[i].items, p)
                 items == SetQuantity(cs[i].items, k, qty[1])
                 fail  == Failed({<<"readCarts", rf>>})
             IN  IF i = 0
                 THEN Answer("updateItemQuantity", u, 404, req,
                             [message |-> "Cart not found"], fail)
                 ELSE IF k = 0
                 THEN Answer("updateItemQuantity", u, 404, req,
                             [message |-> "Item not found in cart"], fail)
                 ELSE /\ WriteCarts([cs EXCEPT ![i].items = items],
                             "updateItemQuantity", u, req,
                             IF qty[1] = 0 THEN "Item removed from cart"
                             ELSE "Cart updated successfully", items, rf, wf)
                      /\ UNCHANGED <<orders, now>>

RemoveItem(u, p, rf, wf) ==
    LET req == [productId |-> p]
        cs  == ReadData(carts, rf)
        i   == FindCart(cs, u)
        items == FilterOut(cs[i].items, p)
        fail  == Failed({<<"readCarts", rf>>})
    IN  IF i = 0
        THEN Answer("removeItem", u, 404, req,
                    [message |-> "Cart not found"], fail)
        ELSE IF Len(items) = Len(cs[i].items)
        THEN Answer("removeItem", u, 404, req,
                    [message |-> "Item not found in cart"], fail)
        ELSE /\ WriteCarts([cs EXCEPT ![i].items = items], "removeItem", u,
                    req, "Item removed from cart successfully", items, rf, wf)
             /\ UNCHANGED <<orders, now>>

ClearCart(u, rf, wf) ==
    LET cs == ReadData(carts, rf)
        i  == FindCart(cs, u)
    IN  IF i = 0
        THEN Answer("clearCart", u, 404, << >>,
                    [message |-> "Cart not found"],
                    Failed({<<"readCarts", rf>>}))
        ELSE /\ WriteCarts([cs EXCEPT ![i] = Emptied(@, now)], "clearCart", u,
                    << >>, "Cart cleared successfully", << >>, rf, wf)
             /\ UNCHANGED <<orders, now>>

(***************************************************************************)
(* The cart routes on their own: user 1 shops, the file may already hold   *)
(* the cart of user 2, and any access to carts.json may fail.              *)
(***************************************************************************)
OtherCart ==
    [userId |-> 2,
     items |-> << [productId |-> "B", name |-> "pear", price |-> 1000,
                   quantity |-> 2] >>,
     clearedAt |-> << >>]

InitCart ==
    /\ carts \in { << >>, <<OtherCart>> }
    /\ orders = << >>
    /\ now = 0
    /\ last = NoRequest
    /\ users = << >>
    /\ registering = {}
    /\ routing = NoRouting

\* an access that the handler never reaches cannot fail
NextCart ==
    \/ \E rf \in BOOLEAN : GetCart(1, rf)
    \/ \E body \in BadAddBodies : AddItem(1, body, FALSE, FALSE)
    \/ \E body \in GoodAddBodies, rf, wf \in BOOLEAN : AddItem(1, body, rf, wf)
    \/ \E p \in Products, qty \in UpdateQuantities, rf, wf \in BOOLEAN :
            /\ UpdateRejects(qty) => ~rf /\ ~wf
            /\ UpdateItemQuantity(1, p, qty, rf, wf)
    \/ \E p \in Products, rf, wf \in BOOLEAN : RemoveItem(1, p, rf, wf)
    \/ \E rf, wf \in BOOLEAN : ClearCart(1, rf, wf)

SpecCart == InitCart /\ [][NextCart]_vars

(***************************************************************************)
(* Order routes                                                            *)
(***************************************************************************)
\* 24 * 60 * 60 * 1000
DayMs == 86400000

\* Math.random().toString(36).substr(2, 4).toUpperCase()
Suffixes == {"K3QZ", "T80M"}

\* `FM${Date.now()}${suffix}`
OrderId(t, suffix) == <<"FM", t, suffix>>

Statuses == {"confirmed", "processing", "shipped", "delivered", "cancelled"}

\* String.prototype.toLowerCase on the statuses and emails that occur
ToLowerCase(str) ==
    CASE str = "Delivered" -> "delivered"
      [] str = "Cancelled" -> "cancelled"
      [] str = "Ann@x.io" -> "ann@x.io"
      [] OTHER -> str

\* items.reduce((sum, item) => sum + (item.price * item.quantity), 0)
RawTotal(items) == TotalPrice(items)

\* parseFloat(x.toFixed(2)) of an amount in half-mills, in cents: the nearest
\* cent.  (An amount half way between two cents has no exact double and
\* toFixed follows the double; the amounts drawn below are never half way.)
ToFixed2(x) == (x + 10) \div 20

\* items.map(item => ({ productId, name, price: parseFloat(price),
\*                      quantity: parseInt(quantity), image }))
Snapshot(items) ==
    [k \in 1..Len(items) |->
        [productId |-> items[k].productId, name |-> items[k].name,
         price |-> ParseFloat(items[k].price),
         quantity |-> ParseInt(items[k].quantity)]]

\* POST /api/orders: the checks that answer 400
CreateOrderRejects(body) ==
    \/ body.items = << >>
    \/ body.items[1] = << >>
    \/ body.deliveryAddress = ""
    \/ body.paymentMethod = ""

NewOrder(u, body, t, suffix) ==
    [id |-> OrderId(t, suffix),
     userId |-> u,
     items |-> Snapshot(body.items[1]),
     totalAmount |-> ToFixed2(RawTotal(body.items[1])),
     deliveryAddress |-> body.deliveryAddress,
     paymentMethod |-> body.paymentMethod,
     notes |-> body.notes,
     status |-> "confirmed",
     orderDate |-> t,
     estimatedDelivery |-> t + DayMs,
     cancelledAt |-> << >>,
     cancellationReason |-> << >>]

\* FindOrder with the owner left out of the comparison
FindOrderAnyOwner(os, id, u) ==
    IF \E i \in 1..Len(os) : os[i].id = id
    THEN CHOOSE i \in 1..Len(os) :
            os[i].id = id /\ \A j \in 1..(i - 1) : os[j].id # id
    ELSE 0

\* orders.findIndex(order => order.id === orderId && order.userId === id)
RECURSIVE FindOrderFrom(_, _, _, _)
FindOrderFrom(os, id, u, i) ==
    IF i > Len(os) THEN 0
    ELSE IF os[i].id = id /\ os[i].userId = u THEN i
    ELSE FindOrderFrom(os, id, u, i + 1)

FindOrder(os, id, u) == FindOrderFrom(os, id, u, 1)

\* CannotCancel with 'cancelled' left out of the list
CannotCancelAgain(order) == ToLowerCase(order.status) \in {"delivered"}

\* CannotCancel with 'delivered' left out of the list
CannotCancelLax(order) == ToLowerCase(order.status) \in {"cancelled"}

\* ['delivered', 'cancelled'].includes(order.status.toLowerCase())
CannotCancel(order) == ToLowerCase(order.status) \in {"delivered", "cancelled"}

DefaultReason == "Cancelled by customer"

\* { ...order, status: 'cancelled', cancelledAt, cancellationReason }
Cancelled(order, reason, t) ==
    [order EXCEPT !.status = "cancelled",
                  !.cancelledAt = <<t>>,
                  !.cancellationReason =
                      <<IF reason = "" THEN DefaultReason ELSE reason>>]

\* orders.filter(order => order.userId === id)
RECURSIVE OrdersOf(_, _)
OrdersOf(os, u) ==
    IF os = << >> THEN << >>
    ELSE IF Head(os).userId = u THEN <<Head(os)>> \o OrdersOf(Tail(os), u)
    ELSE OrdersOf(Tail(os), u)

\* InsertByDate with o put in front of the orders of its date
RECURSIVE InsertByDateInFront(_, _)
InsertByDateInFront(sorted, o) ==
    IF sorted = << >> THEN <<o>>
    ELSE IF Head(sorted).orderDate > o.orderDate
         THEN <<Head(sorted)>> \o InsertByDateInFront(Tail(sorted), o)
         ELSE <<o>> \o sorted

\* o put into a sequence sorted newest first, behind the orders of its date
RECURSIVE InsertByDate(_, _)
InsertByDate(sorted, o) ==
    IF sorted = << >> THEN <<o>>
    ELSE IF Head(sorted).orderDate >= o.orderDate
         THEN <<Head(sorted)>> \o InsertByDate(Tail(sorted), o)
         ELSE <<o>> \o sorted

\* userOrders.sort((a, b) => new Date(b.orderDate) - new Date(a.orderDate))
RECURSIVE SortNewestFirst(_)
SortNewestFirst(os) ==
    IF os = << >> THEN << >>
    ELSE InsertByDate(SortNewestFirst(SubSeq(os, 1, Len(os) - 1)), os[Len(os)])

\* CreatedStatus with a failed cart write thrown like a failed order write
CreatedStatusStrict(cartWriteFailed) == IF cartWriteFailed THEN 500 ELSE 201

\* POST /api/orders after the order is saved: writeData(CARTS_FILE, carts)
\* is called for its effect only, and 201 follows whatever it returned
CreatedStatus(cartWriteFailed) == 201

ListOrders(u, rf) ==
    LET userOrders == SortNewestFirst(OrdersOf(ReadData(orders, rf), u))
    IN  Answer("listOrders", u, 200, << >>,
               [orders |-> userOrders, total |-> Len(userOrders)],
               Failed({<<"readOrders", rf>>}))

CreateOrder(u, body, suffix, rfO, wfO, rfC, wfC) ==
    IF CreateOrderRejects(body)
    THEN Answer("createOrder", u, 400, body, [message |-> "Invalid"], {})
    ELSE LET newOrder == NewOrder(u, body, now, suffix)
             os == Append(ReadData(orders, rfO), newOrder)
             cs == ReadData(carts, rfC)
             i  == FindCart(cs, u)
         IN  /\ Len(os) <= MaxOrders
             /\ IF wfO
                THEN Answer("createOrder", u, 500, body,
                         [message |-> "Failed to create order"],
                         Failed({<<"readOrders", rfO>>, <<"writeOrders", wfO>>}))
                ELSE /\ orders' = os
                     /\ carts' = IF i # 0 /\ ~wfC
                                 THEN [cs EXCEPT ![i] = Emptied(@, now)]
                                 ELSE carts
                     /\ last' = Response("createOrder", u,
                            CreatedStatus(i # 0 /\ wfC), body,
                            [message |-> "Order placed successfully",
                             order |-> newOrder],
                            Failed({<<"readOrders", rfO>>, <<"readCarts", rfC>>,
                                    <<"writeCarts", i # 0 /\ wfC>>}))
                     /\ UNCHANGED <<now, users, registering, routing>>

CancelOrder(u, id, reason, rf, wf) ==
    LET req == [orderId |-> id, reason |-> reason]
        os  == ReadData(orders, rf)
        k   == FindOrder(os, id, u)
        fail == Failed({<<"readOrders", rf>>})
    IN  IF k = 0
        THEN Answer("cancelOrder", u, 404, req,
                    [message |-> "Order not found"], fail)
        ELSE IF CannotCancel(os[k])
        THEN Answer("cancelOrder", u, 400, req,
                    [message |-> "Cannot cancel order with status"], fail)
        ELSE LET os2 == [os EXCEPT ![k] = Cancelled(@, reason, now)]
             IN  IF wf
                 THEN Answer("cancelOrder", u, 500, req,
                          [message |-> "Failed to cancel order"],
                          fail \cup {"writeOrders"})
                 ELSE /\ orders' = os2
                      /\ last' = Response("cancelOrder", u, 200, req,
                             [message |-> "Order cancelled successfully",
                              order |-> os2[k]], fail)
                      /\ UNCHANGED <<carts, now, users, registering, routing>>

GetOrder(u, id, rf) ==
    LET os == ReadData(orders, rf)
        k  == FindOrder(os, id, u)
        fail == Failed({<<"readOrders", rf>>})
    IN  IF k = 0
        THEN Answer("getOrder", u, 404, [orderId |-> id],
                    [message |-> "Order not found"], fail)
        ELSE Answer("getOrder", u, 200, [orderId |-> id],
                    [order |-> os[k]], fail)

(***************************************************************************)
(* The order routes, with GET /api/cart to look at the cart afterwards:    *)
(* users 1 and 2 order, orders.json may already hold an order of user 1 in *)
(* any status (fulfilment moves orders on outside these routes), and any   *)
(* access to either file may fail.  All requests fall in one clock tick.   *)
(***************************************************************************)
Line(p, name, price, q) ==
    [productId |-> p, name |-> name, price |-> price, quantity |-> q]

\* 2.50 x 2 and 1.00 x 3
Basket == << Line("A", "apple", 2500, 4), Line("B", "pear", 1000, 6) >>

\* 1.004 x 1, twice
Weighed == << Line("A", "apple", 1004, 2), Line("B", "pear", 1004, 2) >>

\* 1.00 x 1.5
Halved == << Line("A", "apple", 1000, 3) >>

OrderBody(items, address, method, notes) ==
    [items |-> items, deliveryAddress |-> address, paymentMethod |-> method,
     notes |-> notes]

\* bodies of POST /api/orders that pass its checks
GoodOrderBodies ==
    { OrderBody(<<Basket>>, "1 Main St", "card", ""),
      OrderBody(<<Weighed>>, "1 Main St", "cash", ""),
      OrderBody(<<Halved>>, "1 Main St", "crypto", "ring the bell") }

\* bodies of POST /api/orders with items, address or payment method missing
BadOrderBodies ==
    { OrderBody(<< >>, "1 Main St", "card", ""),
      OrderBody(<< << >> >>, "1 Main St", "card", ""),
      OrderBody(<<Basket>>, "", "card", ""),
      OrderBody(<<Basket>>, "1 Main St", "", "") }

Reasons == {"", "changed my mind"}

\* the ids a client of these routes may ask for
OrderIds == { OrderId(0, x) : x \in Suffixes }

\* an order of user 1 placed earlier, now in status s
Placed(s) ==
    [NewOrder(1, OrderBody(<<Basket>>, "1 Main St", "card", ""), 0, "K3QZ")
        EXCEPT !.status = s,
               !.cancelledAt = IF s = "cancelled" THEN <<0>> ELSE << >>,
               !.cancellationReason =
                   IF s = "cancelled" THEN <<DefaultReason>> ELSE << >>]

FullCart ==
    [userId |-> 1, items |-> Snapshot(Basket), clearedAt |-> << >>]

InitOrder ==
    /\ carts \in { << >>, <<FullCart>>, <<OtherCart, FullCart>> }
    /\ orders \in { << >> } \cup { <<Placed(s)>> : s \in Statuses \cup {"Delivered"} }
    /\ now = 0
    /\ last = NoRequest
    /\ users = << >>
    /\ registering = {}
    /\ routing = NoRouting

\* an access that the handler never reaches cannot fail
NextOrder ==
    \/ \E rf \in BOOLEAN : GetCart(1, rf)
    \/ \E u \in Users, rf \in BOOLEAN : ListOrders(u, rf)
    \/ \E body \in BadOrderBodies :
            CreateOrder(1, body, "T80M", FALSE, FALSE, FALSE, FALSE)
    \/ \E body \in GoodOrderBodies, rfO, wfO, rfC, wfC \in BOOLEAN :
            /\ wfO => ~rfC /\ ~wfC
            /\ CreateOrder(1, body, "T80M", rfO, wfO, rfC, wfC)
    \/ \E u \in Users, id \in OrderIds, reason \in Reasons, rf, wf \in BOOLEAN :
            CancelOrder(u, id, reason, rf, wf)
    \/ \E u \in Users, id \in OrderIds, rf \in BOOLEAN : GetOrder(u, id, rf)

SpecOrder == InitOrder /\ [][NextOrder]_vars

(***************************************************************************)
(* The order book over time: users 1 and 2 place orders while the clock    *)
(* advances, and list them.  Two requests served before the clock moves    *)
(* fall in one millisecond.                                                *)
(***************************************************************************)
\* the clock advances by a millisecond between two handler runs
Tick ==
    /\ now < MaxTime
    /\ now' = now + 1
    /\ UNCHANGED <<carts, orders, last, users, registering, routing>>

InitLedger ==
    /\ carts = << >>
    /\ orders = << >>
    /\ now = 0
    /\ last = NoRequest
    /\ users = << >>
    /\ registering = {}
    /\ routing = NoRouting

NextLedger ==
    \/ Tick
    \/ \E u \in Users, suffix \in Suffixes :
            CreateOrder(u, OrderBody(<<Basket>>, "1 Main St", "card", ""),
                suffix, FALSE, FALSE, FALSE, FALSE)
    \/ \E u \in Users, rf \in BOOLEAN : ListOrders(u, rf)

SpecLedger == InitLedger /\ [][NextLedger]_vars

(***************************************************************************)
(* Auth routes                                                             *)
(***************************************************************************)
\* name.trim() and its length, on the names that occur
Trim(name) == IF name = " B " THEN "B" ELSE name

TrimLength(name) == IF Trim(name) = "B" THEN 1 ELSE 3

\* /^\S+@\S+\.\S+$/.test(email), on the emails that occur
EmailFormat(email) == email \in {"ann@x.io", "Ann@x.io", "bob@x.io"}

\* password.length, on the passwords that occur
PasswordLength(password) == IF password = "abc" THEN 3 ELSE 7

\* bcrypt.hash(password, 12), and what bcrypt.compare accepts
Hash(password) == <<"bcrypt", password>>

RegisterBody(name, email, password) ==
    [name |-> name, email |-> email, password |-> password]

\* the register requests that can be in flight at once
Slots == {1, 2}

\* bodies of POST /api/register that pass its checks
GoodRegisterBodies ==
    { RegisterBody("Ann", e, "secret1") : e \in {"ann@x.io", "Ann@x.io", "bob@x.io"} }

\* bodies of POST /api/register with a field missing or malformed
BadRegisterBodies ==
    { RegisterBody("", "ann@x.io", "secret1"),
      RegisterBody("Ann", "", "secret1"),
      RegisterBody("Ann", "ann@x.io", ""),
      RegisterBody(" B ", "ann@x.io", "secret1"),
      RegisterBody("Ann", "ann", "secret1"),
      RegisterBody("Ann", "ann@x.io", "abc") }

\* bodies of POST /api/login
LoginBodies ==
    { [email |-> "", password |-> "secret1"],
      [email |-> "Ann@x.io", password |-> "secret1"],
      [email |-> "bob@x.io", password |-> "abc"] }

\* POST /api/register: the checks that answer 400 before users.json is read
RegisterRejects(body) ==
    \/ body.name = "" \/ body.email = "" \/ body.password = ""
    \/ TrimLength(body.name) < 2
    \/ ~EmailFormat(body.email)
    \/ PasswordLength(body.password) < 6

\* EmailTaken with the emails compared as they are
EmailTakenExact(us, email) ==
    \E k \in 1..Len(us) : us[k].email = email

\* users.some(u => u.email.toLowerCase() === email.toLowerCase())
EmailTaken(us, email) ==
    \E k \in 1..Len(us) : ToLowerCase(us[k].email) = ToLowerCase(email)

NewUser(body, t) ==
    [id |-> t,
     name |-> Trim(body.name),
     email |-> ToLowerCase(body.email),
     password |-> Hash(body.password),
     createdAt |-> t]

\* users.find(u => u.email.toLowerCase() === email.toLowerCase()), 0 for none
RECURSIVE FindUserFrom(_, _, _)
FindUserFrom(us, email, i) ==
    IF i > Len(us) THEN 0
    ELSE IF ToLowerCase(us[i].email) = ToLowerCase(email) THEN i
    ELSE FindUserFrom(us, email, i + 1)

\* the payload of the token and the user of the response
Token(user) == [id |-> user.id, email |-> user.email]

PublicUser(user) == [id |-> user.id, name |-> user.name, email |-> user.email]

\* POST /api/register up to `await bcrypt.hash`: the checks and the read of
\* users.json; the handler is then suspended with the array it has read
RegisterBegin(rid, body, rf) ==
    /\ \A r \in registering : r.rid # rid
    /\ IF RegisterRejects(body)
       THEN Answer("register", 0, 400, body, [message |-> "Invalid"], {})
       ELSE LET us   == ReadData(users, rf)
                fail == Failed({<<"readUsers", rf>>})
            IN  IF EmailTaken(us, body.email)
                THEN Answer("register", 0, 400, body,
                            [message |-> "Email already registered"], fail)
                ELSE /\ registering' = registering \cup
                            { [rid |-> rid, body |-> body, users |-> us,
                               fail |-> fail] }
                     /\ UNCHANGED <<carts, orders, now, last, users, routing>>

\* POST /api/register from `await bcrypt.hash` on: the user is pushed onto
\* the array read before the await and that array is written; then the
\* cart is pushed and carts.json written, whatever that write returns
RegisterFinish(r, wf, rfC, wfC) ==
    LET newUser == NewUser(r.body, now)
        us == Append(r.users, newUser)
        cs == Append(ReadData(carts, rfC), NewCart(newUser.id))
    IN  /\ Len(us) <= MaxUsers
        /\ Len(cs) <= MaxUsers
        /\ registering' = registering \ {r}
        /\ IF wf
           THEN /\ last' = Response("register", 0, 500, r.body,
                       [message |-> "Server error during registration"],
                       r.fail \cup {"writeUsers"})
                /\ UNCHANGED <<users, carts>>
           ELSE /\ users' = us
                /\ carts' = IF wfC THEN carts ELSE cs
                /\ last' = Response("register", 0, 201, r.body,
                       [message |-> "Registration successful",
                        user |-> PublicUser(newUser),
                        token |-> Token(newUser)],
                       r.fail \cup Failed({<<"readCarts", rfC>>,
                                           <<"writeCarts", wfC>>}))
        /\ UNCHANGED <<orders, now, routing>>

\* POST /api/login
Login(body, rf) ==
    IF body.email = "" \/ body.password = ""
    THEN Answer("login", 0, 400, body,
                [message |-> "Email and password required"], {})
    ELSE LET us == ReadData(users, rf)
             k  == FindUserFrom(us, body.email, 1)
             fail == Failed({<<"readUsers", rf>>})
         IN  IF k = 0 \/ us[k].password # Hash(body.password)
             THEN Answer("login", 0, 401, body,
                         [message |-> "Invalid credentials"], fail)
             ELSE Answer("login", 0, 200, body,
                         [message |-> "Login successful",
                          user |-> PublicUser(us[k]),
                          token |-> Token(us[k])], fail)

(***************************************************************************)
(* The auth routes on their own: clients register while the clock          *)
(* advances, possibly several at once, and log in.  An access to           *)
(* users.json may fail.                                                    *)
(***************************************************************************)
\* the slot a new register handler takes: the lowest one that is free
FreeSlot(rid) ==
    /\ \A r \in registering : r.rid # rid
    /\ \A k \in 1..(rid - 1) : \E r \in registering : r.rid = k

InitAuth ==
    /\ carts = << >>
    /\ orders = << >>
    /\ now = 0
    /\ last = NoRequest
    /\ users = << >>
    /\ registering = {}
    /\ routing = NoRouting

NextAuth ==
    \/ Tick
    \/ \E rid \in Slots, body \in BadRegisterBodies :
            FreeSlot(rid) /\ RegisterBegin(rid, body, FALSE)
    \/ \E rid \in Slots, body \in GoodRegisterBodies,
          rf \in BOOLEAN : FreeSlot(rid) /\ RegisterBegin(rid, body, rf)
    \/ \E r \in registering, wf \in BOOLEAN :
            RegisterFinish(r, wf, FALSE, FALSE)
    \/ \E body \in LoginBodies, rf \in BOOLEAN : Login(body, rf)

SpecAuth == InitAuth /\ [][NextAuth]_vars

(***************************************************************************)
(* Registration next to the cart and order routes: clients register while  *)
(* the clock advances, possibly several at once, and the users that        *)
(* users.json holds shop with the tokens they were given.                  *)
(***************************************************************************)
\* the ids that Date.now() can give a user
UserIds == 0..MaxTime

\* u is the id of a user of users.json
Registered(u) == \E k \in 1..Len(users) : users[k].id = u

InitRegister ==
    /\ carts = << >>
    /\ orders = << >>
    /\ now = 0
    /\ last = NoRequest
    /\ users = << >>
    /\ registering = {}
    /\ routing = NoRouting

\* one order is placed at most, to keep orders.json small
NextRegister ==
    \/ Tick
    \/ \E rid \in Slots, body \in BadRegisterBodies :
            FreeSlot(rid) /\ RegisterBegin(rid, body, FALSE)
    \/ \E rid \in Slots, body \in GoodRegisterBodies,
          rf \in BOOLEAN : FreeSlot(rid) /\ RegisterBegin(rid, body, rf)
    \/ \E r \in registering, wf \in BOOLEAN :
            RegisterFinish(r, wf, FALSE, FALSE)
    \/ \E body \in LoginBodies : Login(body, FALSE)
    \/ \E u \in UserIds : Registered(u) /\ GetCart(u, FALSE)
    \/ \E u \in UserIds :
            /\ Registered(u)
            /\ AddItem(u, [productId |-> "A", name |-> "apple",
                           price |-> 2500, quantity |-> <<4>>], FALSE, FALSE)
    \/ \E u \in UserIds :
            /\ Registered(u)
            /\ orders = << >>
            /\ CreateOrder(u, OrderBody(<<Basket>>, "1 Main St", "card", ""),
                   "T80M", FALSE, FALSE, FALSE, FALSE)

SpecRegister == InitRegister /\ [][NextRegister]_vars

(***************************************************************************)
(* The handler stack.  express keeps the handlers in the order in which    *)
(* app.use / app.get / app.post / app.put / app.delete registered them and *)
(* offers a request to each in turn; the first one that matches and        *)
(* answers ends the walk.  A path is the sequence of its segments.         *)
(***************************************************************************)
Layer(kind, method, path, name) ==
    [kind |-> kind, method |-> method, path |-> path, name |-> name]

\* the handlers of server.js in registration order
Stack ==
    << Layer("use", "", << >>, "helmet"),
       Layer("use", "", << >>, "json"),
       Layer("use", "", << >>, "urlencoded"),
       Layer("use", "", << >>, "cors"),
       Layer("use", "", <<"api">>, "limiter"),
       Layer("route", "POST", <<"api", "register">>, "register"),
       Layer("route", "POST", <<"api", "login">>, "login"),
       Layer("route", "GET", <<"api", "cart">>, "getCart"),
       Layer("route", "POST", <<"api", "cart">>, "addItem"),
       Layer("route", "PUT", <<"api", "cart", ":productId">>,
             "updateItemQuantity"),
       Layer("route", "DELETE", <<"api", "cart", ":productId">>, "removeItem"),
       Layer("route", "DELETE", <<"api", "cart">>, "clearCart"),
       Layer("route", "GET", <<"api", "orders">>, "listOrders"),
       Layer("route", "POST", <<"api", "orders">>, "createOrder"),
       Layer("route", "PUT", <<"api", "orders", ":orderId", "cancel">>,
             "cancelOrder"),
       Layer("route", "GET", <<"api", "orders", ":orderId">>, "getOrder"),
       Layer("error", "", << >>, "errorHandler"),
       Layer("use", "", <<"api", "*">>, "notFound"),
       Layer("route", "GET", <<"api", "health">>, "health"),
       Layer("route", "GET", << >>, "root") >>

Methods == {"GET", "POST", "PUT", "DELETE", "OPTIONS"}

\* the paths clients ask for
Paths ==
    { << >>, <<"api">>, <<"api", "health">>, <<"api", "cart">>,
      <<"api", "cart", "A">>, <<"api", "orders">>, <<"api", "orders", "X">>,
      <<"api", "orders", "X", "cancel">>, <<"api", "register">>,
      <<"api", "login">>, <<"api", "nope">>, <<"shop">> }

\* a segment of a pattern against a segment of a path
SegmentMatches(pat, seg) ==
    pat = seg \/ pat = "*" \/ pat \in {":productId", ":orderId"}

\* app.use(path, ...) takes the paths that begin with its pattern, a route
\* takes the paths that are its pattern, with its method
Matches(layer, method, path) ==
    /\ layer.kind = "route" => layer.method = method /\ Len(path) = Len(layer.path)
    /\ Len(path) >= Len(layer.path)
    /\ \A i \in 1..Len(layer.path) : SegmentMatches(layer.path[i], path[i])

\* the layer answers the request itself; otherwise the request goes on to
\* the next layer: helmet and the body parsers call next(), cors answers
\* the preflight, the limiter answers a client over its rate, and a handler
\* with four parameters is offered errors only
Answers(layer, req) ==
    /\ layer.kind # "error"
    /\ Matches(layer, req.method, req.path)
    /\ layer.name \notin {"helmet", "json", "urlencoded"}
    /\ layer.name = "cors" => req.method = "OPTIONS"
    /\ layer.name = "limiter" => req.overLimit

\* what the handlers that take no input answer with; the other handlers
\* are the actions above
Reply(name) ==
    CASE name = "health" ->
             << [status |-> 200, success |-> TRUE,
                 message |-> "Server is healthy"] >>
      [] name = "notFound" ->
             << [status |-> 404, success |-> FALSE,
                 message |-> "Endpoint not found"] >>
      [] name = "limiter" -> << [status |-> 429] >>
      [] name = "cors" -> << [status |-> 204] >>
      [] name = "root" -> << [status |-> 200] >>
      [] OTHER -> << >>

\* a request arrives once the one before it is answered
Receive(method, path, overLimit) ==
    /\ routing.handler # ""
    /\ routing' = [method |-> method, path |-> path, overLimit |-> overLimit,
                   layer |-> 1, handler |-> "", res |-> << >>]
    /\ UNCHANGED <<carts, orders, now, last, users, registering>>

\* the layer the request is at does not answer it: on to the next one
Skip ==
    /\ routing.handler = ""
    /\ routing.layer <= Len(Stack)
    /\ ~Answers(Stack[routing.layer], routing)
    /\ routing' = [routing EXCEPT !.layer = @ + 1]
    /\ UNCHANGED <<carts, orders, now, last, users, registering>>

\* the layer the request is at answers it
Handle ==
    /\ routing.handler = ""
    /\ routing.layer <= Len(Stack)
    /\ Answers(Stack[routing.layer], routing)
    /\ routing' = [routing EXCEPT !.handler = Stack[routing.layer].name,
                                  !.res = Reply(Stack[routing.layer].name)]
    /\ UNCHANGED <<carts, orders, now, last, users, registering>>

\* no layer answered: express answers 404 itself
FinalHandler ==
    /\ routing.handler = ""
    /\ routing.layer > Len(Stack)
    /\ routing' = [routing EXCEPT !.handler = "finalhandler",
                                  !.res = << [status |-> 404] >>]
    /\ UNCHANGED <<carts, orders, now, last, users, registering>>

InitRouter ==
    /\ carts = << >>
    /\ orders = << >>
    /\ now = 0
    /\ last = NoRequest
    /\ users = << >>
    /\ registering = {}
    /\ routing = NoRouting

NextRouter ==
    \/ \E method \in Methods, path \in Paths, overLimit \in BOOLEAN :
            Receive(method, path, overLimit)
    \/ Skip
    \/ Handle
    \/ FinalHandler

SpecRouter == InitRouter /\ [][NextRouter]_vars

(***************************************************************************)
(* Properties                                                              *)
(***************************************************************************)
\* the step serves a request: last' is that request and its response
Served == now' = now

\* r is a request that was answered with success and met no store failure
Clean(r, op) == r.op = op /\ r.status \in {200, 201} /\ r.fail = {}

\* the number of lines of items that are for product p
RECURSIVE Lines(_, _)
Lines(items, p) ==
    IF items = << >> THEN 0
    ELSE (IF Head(items).productId = p THEN 1 ELSE 0) + Lines(Tail(items), p)

\* C1: two concurrent addItem requests of one user for two different
\* products are two handler runs, one right after the other in either
\* order; once both have answered success the user's persisted cart has a
\* line for each of the two products, whatever the cart held before.
C1_ConcurrentAddsSurvive ==
    [][ ( /\ Served
          /\ Clean(last, "addItem") /\ Clean(last', "addItem")
          /\ last.user = last'.user
          /\ last.req.productId # last'.req.productId )
        => /\ Lines(ItemsOf(carts', last'.user), last.req.productId) = 1
           /\ Lines(ItemsOf(carts', last'.user), last'.req.productId) = 1
      ]_vars

\* C1 witness: an add has just appended a second line to the cart
C1_Witness ==
    /\ Clean(last, "addItem")
    /\ Len(ItemsOf(carts, last.user)) = 2
    /\ ItemsOf(carts, last.user)[2].productId = last.req.productId
    /\ ItemsOf(carts, last.user)[2].quantity = ParseInt(Quantity(last.req.quantity))
    /\ last.res.items = ItemsOf(carts, last.user)

\* C4: updateItemQuantity(P, 0) on a cart that holds P succeeds and removes
\* P's line, every other line staying as it was.
C4_UpdateToZeroRemoves ==
    [][ ( /\ Served
          /\ last'.op = "updateItemQuantity"
          /\ last'.req.quantity = <<0>>
          /\ last'.fail = {}
          /\ FindItem(ItemsOf(carts, last'.user), last'.req.productId) # 0 )
        => /\ last'.status = 200
           /\ ItemsOf(carts', last'.user)
                = FilterOut(ItemsOf(carts, last'.user), last'.req.productId)
      ]_vars

\* C7: getCart is get-or-create: once getCart has answered a user, a cart
\* record of that user is in the store, and a clearCart, updateItemQuantity
\* or removeItem of that user that comes next is not answered 'Cart not
\* found'.
C7_GetCartCreates ==
    [][ /\ ( Served /\ Clean(last', "getCart") )
            => FindCart(carts', last'.user) # 0
        /\ ( /\ Served
             /\ Clean(last, "getCart")
             /\ last'.user = last.user
             /\ last'.op \in {"clearCart", "updateItemQuantity", "removeItem"}
             /\ last'.fail = {} )
            => ~(last'.status = 404 /\ last'.res.message = "Cart not found")
      ]_vars

Persisted(os) == { os[k] : k \in 1..Len(os) }

C3_CancelByStatus ==
    [][ ( /\ Served
          /\ last'.op = "cancelOrder"
          /\ last'.fail = {}
          /\ FindOrder(orders, last'.req.orderId, last'.user) # 0 )
        => LET k == FindOrder(orders, last'.req.orderId, last'.user)
               o == orders[k]
           IN  /\ o.status \in {"delivered", "cancelled"}
                  => /\ last'.status = 400
                     /\ last'.res.message = "Cannot cancel order with status"
                     /\ orders' = orders
               /\ o.status \in {"confirmed", "processing", "shipped"}
                  => /\ last'.status = 200
                     /\ Len(orders') = Len(orders)
                     /\ \A j \in 1..Len(orders) : j # k => orders'[j] = orders[j]
                     /\ orders'[k].status = "cancelled"
                     /\ orders'[k].cancelledAt # << >>
                     /\ orders'[k].cancellationReason
                          = << IF last'.req.reason = ""
                               THEN "Cancelled by customer"
                               ELSE last'.req.reason >>
                     /\ orders'[k]
                          = [o EXCEPT !.status = "cancelled",
                                      !.cancelledAt = orders'[k].cancelledAt,
                                      !.cancellationReason =
                                          orders'[k].cancellationReason]
                     /\ last'.res.order = orders'[k]
      ]_vars

\* C3 witness: the shipped order of user 1 has just been cancelled with a
\* reason of the customer's
C3_Witness ==
    /\ Clean(last, "cancelOrder")
    /\ last.req.reason = "changed my mind"
    /\ orders # << >>
    /\ orders[1] = [Placed("shipped") EXCEPT
                       !.status = "cancelled",
                       !.cancelledAt = <<now>>,
                       !.cancellationReason = <<"changed my mind">>]

\* C5: a request during which a read or a write of a store file fails is
\* answered 500, and leaves carts.json and orders.json as they were.
C5_StoreFailuresPropagate ==
    [][ ( Served /\ last'.op # "none" /\ last'.fail # {} )
        => /\ last'.status = 500
           /\ carts' = carts
           /\ orders' = orders
      ]_vars

\* C6: createOrder without items, with an empty item list, without a
\* delivery address, without a payment method or with a payment method
\* other than card, cash, paypal and other is answered 400, saves no order
\* and leaves the carts as they were.
C6_CreateOrderValidates ==
    [][ ( /\ Served
          /\ last'.op = "createOrder"
          /\ \/ last'.req.items = << >>
             \/ last'.req.items = << << >> >>
             \/ last'.req.deliveryAddress = ""
             \/ last'.req.paymentMethod
                  \notin {"card", "cash", "paypal", "other"} )
        => /\ last'.status = 400
           /\ orders' = orders
           /\ carts' = carts
      ]_vars

\* C9: the totalAmount of every order that createOrder saves is the sum of
\* price x quantity over the items stored in the order, to the nearest
\* cent; 2.50 x 2 and 1.00 x 3 give 8.00.
C9_TotalOfSnapshot ==
    /\ \A o \in Persisted(orders) :
          o.totalAmount = (TotalPrice(o.items) + 10) \div 20
    /\ ( /\ last.op = "createOrder" /\ last.status = 201
         /\ last.req.items = <<Basket>> )
       => last.res.order.totalAmount = 800

\* C10: whenever createOrder saves the order it answers 201, whether or
\* not its read or its write of carts.json fails, the order stays saved,
\* and the caller's cart is empty afterwards unless that read or that
\* write failed.
C10_BestEffortCheckout ==
    [][ ( Served /\ last'.op = "createOrder" /\ orders' # orders )
        => /\ last'.status = 201
           /\ last'.res.order \in Persisted(orders')
           /\ orders'[Len(orders')] = last'.res.order
           /\ \/ ItemsOf(carts', last'.user) = << >>
              \/ last'.fail \cap {"readCarts", "writeCarts"} # {}
      ]_vars

\* C10 witness: the order is saved and answered 201 although the write of
\* carts.json failed and the cart still holds its items
C10_Witness ==
    /\ last.op = "createOrder"
    /\ last.status = 201
    /\ "writeCarts" \in last.fail
    /\ last.res.order \in Persisted(orders)
    /\ ItemsOf(carts, last.user) # << >>

\* C11: getOrder and cancelOrder for an order id that no order has, or that
\* only orders of other users have, are answered 404 with no order in the
\* response, and leave orders.json as it was; so in every store condition.
C11_ForeignOrderNotFound ==
    [][ ( /\ Served
          /\ last'.op \in {"getOrder", "cancelOrder"}
          /\ ~ \E o \in Persisted(orders) :
                  o.id = last'.req.orderId /\ o.userId = last'.user )
        => /\ last'.status = 404
           /\ "order" \notin DOMAIN last'.res
           /\ orders' = orders
      ]_vars

\* C11 witness: user 2 has asked to cancel the confirmed order of user 1,
\* was answered 404, and the order is still confirmed
C11_Witness ==
    /\ last.op = "cancelOrder"
    /\ last.user = 2
    /\ last.status = 404
    /\ "order" \notin DOMAIN last.res
    /\ \E o \in Persisted(orders) :
          o.id = last.req.orderId /\ o.userId = 1 /\ o.status = "confirmed"

\* C12: removeItem, and updateItemQuantity with a quantity that is present
\* and not negative, are answered 404 when the caller has no cart record or
\* the cart has no line for the product; updateItemQuantity with a quantity
\* that is missing or negative is answered 400; carts.json is as it was
\* after each of these answers.
C12_CartFailuresKeepStore ==
    [][ ( Served /\ last'.op \in {"updateItemQuantity", "removeItem"} )
        => LET u      == last'.user
               absent == \/ FindCart(carts, u) = 0
                         \/ Lines(ItemsOf(carts, u), last'.req.productId) = 0
               qty    == last'.req.quantity
           IN  /\ ( last'.op = "removeItem" /\ absent )
                  => last'.status = 404 /\ carts' = carts
               /\ ( /\ last'.op = "updateItemQuantity"
                    /\ ( qty = << >> \/ qty[1] < 0 ) )
                  => last'.status = 400 /\ carts' = carts
               /\ ( /\ last'.op = "updateItemQuantity"
                    /\ qty # << >> /\ qty[1] >= 0
                    /\ absent )
                  => last'.status = 404 /\ carts' = carts
      ]_vars

\* the sum of quantity over the first n lines of items
RECURSIVE QuantitySum(_, _)
QuantitySum(items, n) ==
    IF n = 0 THEN 0 ELSE QuantitySum(items, n - 1) + items[n].quantity

\* the sum of price x quantity over the first n lines of items
RECURSIVE AmountSum(_, _)
AmountSum(items, n) ==
    IF n = 0 THEN 0
    ELSE AmountSum(items, n - 1) + items[n].price * items[n].quantity

\* C14: the totalItems and totalPrice that getCart, addItem,
\* updateItemQuantity and removeItem answer with are the sum of quantity and
\* the sum of price x quantity over the items that carts.json holds for the
\* caller once the request is served; getCart leaves carts.json as it was,
\* so getCart after getCart answers the same totals.
C14_TotalsMatchStore ==
    [][ ( /\ Served
          /\ \E op \in {"getCart", "addItem", "updateItemQuantity",
                        "removeItem"} : Clean(last', op) )
        => LET items == ItemsOf(carts', last'.user)
           IN  /\ last'.res.items = items
               /\ last'.res.totalItems = QuantitySum(items, Len(items))
               /\ last'.res.totalPrice = AmountSum(items, Len(items))
               /\ last'.op = "getCart" => carts' = carts
      ]_vars

\* C14 witness: removeItem has left one line, 2.5 apples at 2.50, and has
\* answered totalItems 2.5 and totalPrice 6.25
C14_Witness ==
    /\ Clean(last, "removeItem")
    /\ Len(ItemsOf(carts, last.user)) = 1
    /\ ItemsOf(carts, last.user)[1].quantity = 5
    /\ ItemsOf(carts, last.user)[1].price = 2500
    /\ last.res.totalItems = 5
    /\ last.res.totalPrice = 12500

\* C20: in every reachable state every cart of carts.json has at most one
\* line per productId, whatever adds, updates, removals and clears were
\* served and whichever of their accesses to carts.json failed.
C20_ProductIdUnique ==
    \A i \in 1..Len(carts) :
        \A p \in Products : Lines(carts[i].items, p) <= 1

\* C20 witness: an add for the product of the first of two lines has been
\* served, and the cart still has the two lines
C20_Witness ==
    /\ Clean(last, "addItem")
    /\ Len(ItemsOf(carts, last.user)) = 2
    /\ ItemsOf(carts, last.user)[1].productId = last.req.productId
    /\ ItemsOf(carts, last.user)[1].quantity >= 4
    /\ ItemsOf(carts, last.user)[2].productId # last.req.productId

\* C16: an order that orders.json holds is still there after every request,
\* whichever store access failed during it, with the same id, userId, items,
\* totalAmount, deliveryAddress, paymentMethod and orderDate; its status,
\* cancelledAt and cancellationReason change only in a cancelOrder.
C16_OrdersOnlyCancelled ==
    [][ \A o \in Persisted(orders) :
            \E o2 \in Persisted(orders') :
                /\ o2.id = o.id
                /\ o2.userId = o.userId
                /\ o2.items = o.items
                /\ o2.totalAmount = o.totalAmount
                /\ o2.deliveryAddress = o.deliveryAddress
                /\ o2.paymentMethod = o.paymentMethod
                /\ o2.orderDate = o.orderDate
                /\ \/ /\ o2.status = o.status
                      /\ o2.cancelledAt = o.cancelledAt
                      /\ o2.cancellationReason = o.cancellationReason
                   \/ last'.op = "cancelOrder"
      ]_vars

\* C17: a request that meets no store failure keeps every order of
\* orders.json in its place; an order it adds has status confirmed and no
\* cancellation fields and is added by createOrder; an order it changes goes
\* from confirmed, processing or shipped to cancelled, in a cancelOrder; so
\* an order that is cancelled or delivered keeps its status, its
\* cancelledAt and its cancellationReason.
C17_StatusMachine ==
    [][ ( Served /\ last'.op # "none" /\ last'.fail = {} )
        => /\ Len(orders') >= Len(orders)
           /\ \A k \in (Len(orders) + 1)..Len(orders') :
                 /\ orders'[k].status = "confirmed"
                 /\ orders'[k].cancelledAt = << >>
                 /\ orders'[k].cancellationReason = << >>
                 /\ last'.op = "createOrder"
           /\ \A k \in 1..Len(orders) :
                 \/ /\ orders'[k].status = orders[k].status
                    /\ orders'[k].cancelledAt = orders[k].cancelledAt
                    /\ orders'[k].cancellationReason
                         = orders[k].cancellationReason
                 \/ /\ orders[k].status \in {"confirmed", "processing", "shipped"}
                    /\ orders'[k].status = "cancelled"
                    /\ last'.op = "cancelOrder"
      ]_vars

\* C17 witness: a second cancelOrder, without a reason, of an order that was
\* cancelled with the customer's reason has been answered 400, and the order
\* still carries that reason
C17_Witness ==
    /\ last.op = "cancelOrder"
    /\ last.status = 400
    /\ last.fail = {}
    /\ last.req.reason = ""
    /\ \E o \in Persisted(orders) :
          /\ o.id = last.req.orderId
          /\ o.userId = last.user
          /\ o.status = "cancelled"
          /\ o.cancellationReason = <<"changed my mind">>

\* C13: listOrders, when its read of orders.json does not fail, answers
\* with exactly the orders of the caller, each once, newest orderDate
\* first, orders of one orderDate in the order orders.json has them, and
\* with total the number of orders it answers with.
C13_ListNewestFirst ==
    [][ ( Served /\ Clean(last', "listOrders") )
        => LET res  == last'.res.orders
               mine == { k \in 1..Len(orders) : orders[k].userId = last'.user }
           IN  /\ Len(res) = Cardinality(mine)
               /\ last'.res.total = Len(res)
               /\ \E f \in [1..Len(res) -> mine] :
                     /\ \A i \in 1..Len(res) : res[i] = orders[f[i]]
                     /\ \A i, j \in 1..Len(res) :
                           i < j =>
                             \/ orders[f[i]].orderDate > orders[f[j]].orderDate
                             \/ /\ orders[f[i]].orderDate = orders[f[j]].orderDate
                                /\ f[i] < f[j]
      ]_vars

\* C13 witness: listOrders has answered with two orders of the caller, the
\* later one, which is second in orders.json, first
C13_Witness ==
    /\ Clean(last, "listOrders")
    /\ Len(orders) = 2
    /\ last.res.total = 2
    /\ last.res.orders = << orders[2], orders[1] >>
    /\ orders[2].orderDate > orders[1].orderDate

\* C15: in every reachable state the orders of orders.json have pairwise
\* different ids, orders placed in one millisecond included.
C15_OrderIdsUnique ==
    \A i, j \in 1..Len(orders) : i # j => orders[i].id # orders[j].id

\* C19: in every reachable state no two users of users.json have emails
\* that are equal when case is ignored, however many register handlers are
\* suspended between their duplicate check and their write.
C19_EmailsUnique ==
    \A i, j \in 1..Len(users) :
        i # j => ToLowerCase(users[i].email) # ToLowerCase(users[j].email)

\* C19 witness: a register handler that found its email free is suspended
\* at the hash while another request has persisted a user with that email
C19_Witness ==
    \E r \in registering :
        /\ r.fail = {}
        /\ ~ \E k \in 1..Len(r.users) :
                ToLowerCase(r.users[k].email) = ToLowerCase(r.body.email)
        /\ \E k \in 1..Len(users) :
                ToLowerCase(users[k].email) = ToLowerCase(r.body.email)

\* C18: in every reachable state carts.json has at most one cart record per
\* userId, and exactly one for every user of users.json, whatever
\* registrations, getCart, addItem and createOrder requests were served and
\* however they interleaved, registrations of one millisecond included.
C18_OneCartPerUser ==
    /\ \A i, j \in 1..Len(carts) :
          i # j => carts[i].userId # carts[j].userId
    /\ \A k \in 1..Len(users) :
          Cardinality({ i \in 1..Len(carts) : carts[i].userId = users[k].id }) = 1

\* the cart records of user v in cs
CartsOf(cs, v) == { cs[i] : i \in { k \in 1..Len(cs) : cs[k].userId = v } }

\* C21: addItem, updateItemQuantity, removeItem, clearCart and createOrder
\* of a user leave the cart records of every other user as they were, still
\* present and with the same items, whichever store access failed.
C21_OtherCartsKept ==
    [][ ( /\ Served
          /\ last'.op \in {"addItem", "updateItemQuantity", "removeItem",
                           "clearCart", "createOrder"} )
        => \A v \in Users :
              v # last'.user => CartsOf(carts', v) = CartsOf(carts, v)
      ]_vars

\* C22: a register request that meets no store failure and is answered 201
\* leaves its user in users.json, and every user that users.json held
\* before a request that meets no store failure is still there after it,
\* however many register handlers were suspended at the hash meanwhile.
C22_RegistrationDurable ==
    [][ ( Served /\ last'.fail = {} )
        => /\ ( last'.op = "register" /\ last'.status = 201 )
              => \E k \in 1..Len(users') :
                    PublicUser(users'[k]) = last'.res.user
           /\ \A k \in 1..Len(users) :
                 \E j \in 1..Len(users') : users'[j] = users[k]
      ]_vars

\* C23: a GET /api/health of a client within its rate limit is answered by
\* the health-check handler, with success true; no handler registered
\* before it answers the request first.
C23_HealthAnswers ==
    ( /\ routing.handler \notin {"", "none"}
      /\ routing.method = "GET"
      /\ routing.path = <<"api", "health">>
      /\ ~routing.overLimit )
    => /\ routing.handler = "health"
       /\ routing.res # << >>
       /\ routing.res[1].success = TRUE

====
